---- MODULE Spec2Model ----
(***************************************************************************)
(* The XCP-over-SPI gateway of src/Gateway/xcp_gateway.py.                 *)
(*                                                                         *)
(* XcpGatewayClient.on_message runs on the websocket listener thread; it   *)
(* parses one JSON message, and for mem_read / mem_write drives the bus    *)
(* through XcpSpiHandler.send_set_mta and XcpSpiHandler.send_command.      *)
(* Every spi.xfer2 call is one step of the model; the Python code between  *)
(* two xfer2 calls belongs to the step of the earlier call.                *)
(*                                                                         *)
(* Text is a sequence of one-character strings.  Python integers of        *)
(* unbounded size (the address, the data value, the value read) are kept   *)
(* as sequences of bits, least significant first, because they exceed the  *)
(* range of TLC's integers; small integers (sizes, bytes) are naturals.     *)
(***************************************************************************)
EXTENDS Integers, Sequences, FiniteSets, TLC

(***************************************************************************)
(* Bounds of the model.                                                    *)
(***************************************************************************)
\* number of messages the remote client sends in one run
MaxMsgs == 2

(***************************************************************************)
(* Text and numbers.                                                       *)
(***************************************************************************)
\* value of a digit character, 99 for a character that is no digit
DigitVal(c) ==
    CASE c = "0" -> 0 [] c = "1" -> 1 [] c = "2" -> 2 [] c = "3" -> 3
      [] c = "4" -> 4 [] c = "5" -> 5 [] c = "6" -> 6 [] c = "7" -> 7
      [] c = "8" -> 8 [] c = "9" -> 9
      [] c \in {"a", "A"} -> 10 [] c \in {"b", "B"} -> 11
      [] c \in {"c", "C"} -> 12 [] c \in {"d", "D"} -> 13
      [] c \in {"e", "E"} -> 14 [] c \in {"f", "F"} -> 15
      [] OTHER -> 99

\* a dictionary key that the message does not carry (data.get gives None)
Missing == <<"<missing>">>

\* data.get(key, default)
Get(field, default) == IF field = Missing THEN default ELSE field

\* the digits of s once the prefix int(s, base) accepts is removed
StripPrefix(s, base) ==
    IF base = 16 /\ Len(s) >= 2 /\ s[1] = "0" /\ s[2] \in {"x", "X"}
    THEN SubSeq(s, 3, Len(s))
    ELSE IF base = 2 /\ Len(s) >= 2 /\ s[1] = "0" /\ s[2] \in {"b", "B"}
    THEN SubSeq(s, 3, Len(s))
    ELSE s

\* int(s, base) raises: None gives TypeError, a bad literal ValueError
IntRaises(s, base) ==
    \/ s = Missing
    \/ Len(StripPrefix(s, base)) = 0
    \/ \E i \in 1..Len(StripPrefix(s, base)) : DigitVal(StripPrefix(s, base)[i]) >= base

RECURSIVE DigitsToNat(_, _)
DigitsToNat(d, base) ==
    IF Len(d) = 0 THEN 0
    ELSE DigitsToNat(SubSeq(d, 1, Len(d) - 1), base) * base + DigitVal(d[Len(d)])

\* int(s, base) as a natural number, for the small numbers (sizes)
IntNat(s, base) == DigitsToNat(StripPrefix(s, base), base)

\* number of bits one digit of the base carries
BitsPerDigit(base) == IF base = 16 THEN 4 ELSE 1

Pow2(k) == 2 ^ k

\* int(s, base) for base 2 or 16 as a sequence of bits, least significant first
IntBits(s, base) ==
    LET d == StripPrefix(s, base)
        w == BitsPerDigit(base)
    IN  [k \in 1..(w * Len(d)) |->
            (DigitVal(d[Len(d) - ((k - 1) \div w)]) \div Pow2((k - 1) % w)) % 2]

\* bit j (from 0) of the integer n
Bit(n, j) == IF j + 1 <= Len(n) THEN n[j + 1] ELSE 0

\* (n >> shift) & 0xFF
ShiftMask(n, shift) ==
    Bit(n, shift) + 2 * Bit(n, shift + 1) + 4 * Bit(n, shift + 2)
    + 8 * Bit(n, shift + 3) + 16 * Bit(n, shift + 4) + 32 * Bit(n, shift + 5)
    + 64 * Bit(n, shift + 6) + 128 * Bit(n, shift + 7)

\* "0x" in s
Contains0x(s) == \E i \in 1..(Len(s) - 1) : s[i] = "0" /\ s[i + 1] = "x"

(***************************************************************************)
(* Frames (XcpSpiHandler.send_set_mta, on_message).                        *)
(***************************************************************************)
\* a filler of zero bytes
dummyZero == [i \in 1..8 |-> 0]

\* dummy = [0xAA] * 8
dummy == [i \in 1..8 |-> 170]

\* the address as a contiguous little-endian word
SetMtaCmdContiguous(address) ==
    <<246, 0, 0, 0, ShiftMask(address, 0), ShiftMask(address, 8),
      ShiftMask(address, 16), ShiftMask(address, 24)>>

\* set_mta_cmd of send_set_mta
SetMtaCmd(address) ==
    <<246, 0, 0, 0, ShiftMask(address, 0), 0, 0, ShiftMask(address, 24)>>

\* a mapping whose fallback counts bytes
NumElementsInBytes(size) ==
    IF size = 8 THEN 1
    ELSE IF size = 16 THEN 2
    ELSE IF size = 32 THEN 4
    ELSE size \div 8

\* the mapping of the bit size to the number of elements of mem_read
NumElements(size) ==
    IF size = 8 THEN 1
    ELSE IF size = 16 THEN 2
    ELSE IF size = 32 THEN 4
    ELSE size

\* the two address bytes in each other's place
ShortUploadCmdSwapped(num_elements, address) ==
    <<245, num_elements, 0, 0, ShiftMask(address, 24), 0, 0, ShiftMask(address, 0)>>

\* spi_cmd of mem_read
ShortUploadCmd(num_elements, address) ==
    <<245, num_elements, 0, 0, ShiftMask(address, 0), 0, 0, ShiftMask(address, 24)>>

\* the bytes of the value, most significant first
DataBytesBigEndian(data_value, length_bytes) ==
    [i \in 1..length_bytes |-> ShiftMask(data_value, 8 * (length_bytes - i))]

\* bytes that saturate when the value does not fit
DataBytesSaturated(data_value, length_bytes) ==
    [i \in 1..length_bytes |->
        IF \E j \in (8 * length_bytes)..Len(data_value) : Bit(data_value, j) = 1
        THEN 255
        ELSE ShiftMask(data_value, 8 * (i - 1))]

\* data_bytes of mem_write
DataBytes(data_value, length_bytes) ==
    [i \in 1..length_bytes |-> ShiftMask(data_value, 8 * (i - 1))]

\* the padding loops of on_message and of send_command
PadTo8(command) ==
    IF Len(command) < 8
    THEN command \o [i \in 1..(8 - Len(command)) |-> 0]
    ELSE command

\* spi_cmd of mem_write, padded by the loop of on_message
DownloadCmd(length_bytes, data_bytes) ==
    PadTo8(<<240, length_bytes>> \o data_bytes)

(***************************************************************************)
(* Decoding and formatting of the value read (mem_read).                   *)
(***************************************************************************)
\* a byte as an integer of eight bits
ByteBits(b) == [k \in 1..8 |-> (b \div Pow2(k - 1)) % 2]

\* n << k
ShiftLeft(n, k) == [i \in 1..k |-> 0] \o n

\* a | b
BitOr(a, b) ==
    [i \in 1..(IF Len(a) > Len(b) THEN Len(a) ELSE Len(b)) |->
        IF Bit(a, i - 1) = 1 \/ Bit(b, i - 1) = 1 THEN 1 ELSE 0]

\* the length check of mem_read fails: "Insufficient response length"
TooShort(size, spi_resp) ==
    \/ size = 8 /\ Len(spi_resp) < 2
    \/ size = 16 /\ Len(spi_resp) < 3
    \/ size = 32 /\ Len(spi_resp) < 5

\* value of mem_read; spi_resp[k] of the code is spi_resp[k + 1] here
DecodeValue(size, spi_resp) ==
    IF size = 8 THEN ByteBits(spi_resp[2])
    ELSE IF size = 16
    THEN BitOr(ShiftLeft(ByteBits(spi_resp[3]), 8), ByteBits(spi_resp[2]))
    ELSE IF size = 32
    THEN BitOr(BitOr(BitOr(ShiftLeft(ByteBits(spi_resp[5]), 24),
                           ShiftLeft(ByteBits(spi_resp[4]), 16)),
                     ShiftLeft(ByteBits(spi_resp[3]), 8)),
               ByteBits(spi_resp[2]))
    ELSE <<>>

\* number of binary digits of value without leading zeros, at least one
BitLength(value) ==
    IF \E i \in 1..Len(value) : value[i] = 1
    THEN CHOOSE i \in 1..Len(value) :
            value[i] = 1 /\ \A j \in (i + 1)..Len(value) : value[j] = 0
    ELSE 1

\* f"0b{value:b}": no zero padding
BinaryValueNoPad(value, size) ==
    <<"0", "b">> \o [k \in 1..BitLength(value) |->
                        IF Bit(value, BitLength(value) - k) = 1 THEN "1" ELSE "0"]

\* f"0b{value:0{size}b}"
BinaryValue(value, size) ==
    LET n == IF size > BitLength(value) THEN size ELSE BitLength(value)
    IN  <<"0", "b">> \o [k \in 1..n |-> IF Bit(value, n - k) = 1 THEN "1" ELSE "0"]

(***************************************************************************)
(* The messages the remote client sends and the bytes the bus returns.     *)
(***************************************************************************)
Add20000010 == <<"0", "x", "2", "0", "0", "0", "0", "0", "1", "0">>
Add12345678 == <<"0", "x", "1", "2", "3", "4", "5", "6", "7", "8">>
AddDEADBEEF == <<"0", "x", "D", "E", "A", "D", "B", "E", "E", "F">>
AddBad == <<"0", "x", "Z", "Z">>
DataDEADBEEF == <<"0", "b", "1", "1", "0", "1", "1", "1", "1", "0", "1", "0", "1", "0", "1", "1", "0", "1", "1", "0", "1", "1", "1", "1", "1", "0", "1", "1", "1", "0", "1", "1", "1", "1">>
DataA5 == <<"0", "b", "1", "0", "1", "0", "0", "1", "0", "1">>
Data1A5 == <<"0", "b", "1", "1", "0", "1", "0", "0", "1", "0", "1">>
DataBad == <<"0", "b", "1", "0", "2">>

\* a message json.loads turns into a dictionary; absent keys are Missing,
\* an absent or empty cmd is "", an absent con_id is "<missing>"
Msg(cmd, add, size, data, con_id) ==
    [wf |-> TRUE, cmd |-> cmd, add |-> add, size |-> size, data |-> data,
     con_id |-> con_id]

\* a message json.loads rejects
NotJson ==
    [wf |-> FALSE, cmd |-> "", add |-> Missing, size |-> Missing,
     data |-> Missing, con_id |-> "<missing>"]

ReadMsg(add, size) == Msg("mem_read", add, size, Missing, "<missing>")

WriteMsg(add, size, data) == Msg("mem_write", add, size, data, "<missing>")

ControlMessages ==
    { Msg("init", Missing, Missing, Missing, "7"),
      Msg("init", Missing, Missing, Missing, "<missing>"),
      Msg("reset", Missing, Missing, Missing, "<missing>"),
      Msg("", Missing, Missing, Missing, "<missing>"),
      NotJson }

ReadMessages ==
    { ReadMsg(Add20000010, <<"3", "2">>),
      ReadMsg(Add12345678, <<"1", "6">>),
      ReadMsg(AddDEADBEEF, <<"8">>),
      ReadMsg(Add12345678, <<"0", "x", "2", "0">>),
      ReadMsg(Add20000010, <<"1", "2">>),
      ReadMsg(Add20000010, Missing),
      ReadMsg(AddBad, <<"8">>),
      ReadMsg(Missing, <<"8">>),
      ReadMsg(Add20000010, <<"a", "b", "c">>) }

WriteMessages ==
    { WriteMsg(Add20000010, <<"3", "2">>, DataDEADBEEF),
      WriteMsg(AddDEADBEEF, <<"8">>, DataA5),
      WriteMsg(Add12345678, <<"1", "6">>, DataA5),
      WriteMsg(Add20000010, <<"4", "8">>, DataDEADBEEF),
      WriteMsg(Add20000010, <<"5", "6">>, DataDEADBEEF),
      WriteMsg(Add20000010, <<"1", "2">>, DataA5),
      WriteMsg(Add20000010, <<"8">>, Data1A5),
      WriteMsg(Add20000010, <<"8">>, DataBad),
      WriteMsg(Add12345678, Missing, Missing),
      WriteMsg(AddBad, <<"8">>, DataA5) }

Messages == ControlMessages \cup ReadMessages \cup WriteMessages

\* what one spi.xfer2 call can return
Responses ==
    { <<>>,
      <<255>>,
      <<255, 120>>,
      <<255, 120, 86>>,
      <<255, 120, 86, 52, 18>>,
      <<255, 239, 190, 173, 222, 0, 0, 0>>,
      <<254, 0, 0, 0, 0, 0, 0, 0>>,
      <<18, 52, 0, 0, 0, 0, 0, 0>> }

\* what a spi.xfer2 call whose result is thrown away can return
Discarded == { <<0, 0, 0, 0, 0, 0, 0, 0>>, <<255, 1, 2, 3, 4, 5, 6, 7>> }

(***************************************************************************)
(* The locals on_message computes from a message.                          *)
(***************************************************************************)
\* size_str, with the default of the command
SizeText(m) == Get(m.size, IF m.cmd = "mem_read" THEN <<"1">> ELSE <<"8">>)

\* the base the size is parsed in
SizeBase(size_str) == IF Contains0x(size_str) THEN 16 ELSE 10

\* size of mem_read, size_bits of mem_write
Size(m) == IntNat(SizeText(m), SizeBase(SizeText(m)))

\* address
Address(m) == IntBits(m.add, 16)

\* data_bits, with its default
DataText(m) == Get(m.data, <<"0", "b", "0", "0", "0", "0", "0", "0", "0", "0">>)

\* data_value
DataValue(m) == IntBits(DataText(m), 2)

\* length_bytes
LengthBytes(m) == Size(m) \div 8

\* the parsing without the check of the width of a write
ParseRaisesNoWidthCheck(m) ==
    \/ IntRaises(m.add, 16)
    \/ IntRaises(SizeText(m), SizeBase(SizeText(m)))
    \/ m.cmd = "mem_write" /\ IntRaises(DataText(m), 2)

\* the parsing of the fields raises, before any bus transfer
ParseRaises(m) ==
    \/ IntRaises(m.add, 16)
    \/ IntRaises(SizeText(m), SizeBase(SizeText(m)))
    \/ /\ m.cmd = "mem_write"
       /\ \/ Size(m) % 8 # 0
          \/ IntRaises(DataText(m), 2)

\* spi_cmd handed to send_command
SpiCmd(m) ==
    IF m.cmd = "mem_read"
    THEN ShortUploadCmd(NumElements(Size(m)), Address(m))
    ELSE DownloadCmd(LengthBytes(m), DataBytes(DataValue(m), LengthBytes(m)))

(***************************************************************************)
(* Replies: the dictionaries ws.send serialises.  A key the dictionary     *)
(* does not hold is NoText (texts) or "<absent>" (strings); Null is None.  *)
(***************************************************************************)
NoText == <<"<absent>">>

Null == <<"null">>

\* an acknowledgment that always carries the default identifier
InitReplyDefaultId(con_id) ==
    [res |-> "init", con_id |-> "00", add |-> <<"<absent>">>, value |-> <<"<absent>">>,
     error |-> "<absent>", state |-> "<absent>"]

\* the dictionary of the init acknowledgment
InitReply(con_id) ==
    [res |-> "init", con_id |-> con_id, add |-> NoText, value |-> NoText,
     error |-> "<absent>", state |-> "<absent>"]

ReadValueReply(add, value) ==
    [res |-> "mem_read", con_id |-> "<absent>", add |-> add, value |-> value,
     error |-> "<absent>", state |-> "<absent>"]

ReadErrorReply(add, error) ==
    [res |-> "mem_read", con_id |-> "<absent>", add |-> add, value |-> Null,
     error |-> error, state |-> "<absent>"]

WriteReply(add, state) ==
    [res |-> "mem_write", con_id |-> "<absent>", add |-> add, value |-> NoText,
     error |-> "<absent>", state |-> state]

\* a status check that only knows the error status 0xFE
SetMtaOkUnlessFE(resp) == resp[1] # 254

\* the status check of send_set_mta: True is returned
SetMtaOk(resp) == resp[1] = 255

\* a status check that takes every status but 0xFE for success
StatusNotError(spi_resp) == spi_resp[1] # 254

\* the status check of on_message on the response of send_command
StatusOk(spi_resp) == spi_resp[1] = 255

\* the message of the length check of mem_read
InsufficientText(size) ==
    IF size = 8 THEN "Insufficient response length for 8-bit"
    ELSE IF size = 16 THEN "Insufficient response length for 16-bit"
    ELSE "Insufficient response length for 32-bit"

\* what mem_read sends back once send_command has returned spi_resp
ReadOutcome(m, spi_resp) ==
    IF StatusOk(spi_resp)
    THEN IF TooShort(Size(m), spi_resp)
         THEN ReadErrorReply(m.add, InsufficientText(Size(m)))
         ELSE ReadValueReply(m.add,
                             BinaryValue(DecodeValue(Size(m), spi_resp), Size(m)))
    ELSE ReadErrorReply(m.add, "SHORT_UPLOAD failed")

\* what mem_write sends back once send_command has returned spi_resp
WriteOutcome(m, spi_resp) ==
    WriteReply(m.add, IF StatusOk(spi_resp) THEN "success" ELSE "fail")

(***************************************************************************)
(* State.                                                                  *)
(***************************************************************************)
VARIABLES
    wsState,    \* the websocket: "connecting", "open" or "closed"
    connected,  \* XcpGatewayClient.connected
    spiOpen,    \* the spidev handle of XcpSpiHandler is open
    main,       \* the main thread: "running", or "closing" once it has called disconnect
    inbox,      \* messages received by the socket and not yet given to on_message
    ops,        \* the messages on_message was called with, in order (log)
    cur,        \* index in ops of the message on_message is handling, 0 if none
    pc,         \* the place of the listener thread in on_message
    busLog,     \* the frames transmitted on the bus, in order (log)
    busRx,      \* the bytes the latest transfer of the exchange in progress received
    resp,       \* resp of send_set_mta / response of send_command
    replies     \* the replies sent on the websocket, in order (log)

vars ==
    <<wsState, connected, spiOpen, main, inbox, ops, cur, pc, busLog, busRx,
      resp, replies>>

\* the message being handled
CurMsg == ops[cur].msg

\* the places of the listener thread in front of a spi.xfer2 call
XferPcs == {"mta1", "mta2", "mta3", "cmd1", "cmd2", "cmd3"}

\* XcpGatewayClient.__init__ and XcpSpiHandler.__init__, then connect()
Init ==
    /\ wsState = "connecting"
    /\ connected = FALSE
    /\ spiOpen = TRUE
    /\ main = "running"
    /\ inbox = <<>>
    /\ ops = <<>>
    /\ cur = 0
    /\ pc = "idle"
    /\ busLog = <<>>
    /\ busRx = <<>>
    /\ resp = <<>>
    /\ replies = <<>>

\* a listener that starts a handler while another is running
ListenerAlwaysFree == TRUE

\* run_forever calls the callbacks one after the other on the listener thread
ListenerFree == pc = "idle"

\* a handler that goes straight to the transfer
BusEntrySkipsMta == "cmd1"

\* the place on_message goes to first for mem_read / mem_write
BusEntry == "mta1"

(***************************************************************************)
(* The websocket.                                                          *)
(***************************************************************************)
OnOpen ==
    /\ wsState = "connecting"
    /\ ListenerFree
    /\ wsState' = "open"
    /\ connected' = TRUE
    /\ UNCHANGED <<spiOpen, main, inbox, ops, cur, pc, busLog, busRx, resp, replies>>

\* an on_close that does not release the bus handle
OnCloseKeepsBus ==
    /\ wsState \in {"connecting", "open"}
    /\ ListenerFree
    /\ wsState' = "closed"
    /\ connected' = FALSE
    /\ UNCHANGED <<spiOpen, main, inbox, ops, cur, pc, busLog, busRx, resp, replies>>

OnClose ==
    /\ wsState \in {"connecting", "open"}
    /\ ListenerFree
    /\ wsState' = "closed"
    /\ connected' = FALSE
    /\ spiOpen' = FALSE
    /\ UNCHANGED <<main, inbox, ops, cur, pc, busLog, busRx, resp, replies>>

\* the remote client sends a message; it waits in the socket; the entry
\* remembers which message was being handled when it arrived
Arrive ==
    /\ wsState = "open"
    /\ Len(ops) + Len(inbox) < MaxMsgs
    /\ inbox' = Append(inbox, [during |-> cur])
    /\ UNCHANGED <<wsState, connected, spiOpen, main, ops, cur, pc, busLog, busRx,
                   resp, replies>>

(***************************************************************************)
(* The main thread: on KeyboardInterrupt it calls disconnect; the process   *)
(* ends some time later, and until then the listener thread runs on.       *)
(***************************************************************************)
Interrupt ==
    /\ main = "running"
    /\ main' = "closing"
    /\ spiOpen' = FALSE
    /\ UNCHANGED <<wsState, connected, inbox, ops, cur, pc, busLog, busRx, resp,
                   replies>>

(***************************************************************************)
(* on_message.                                                             *)
(***************************************************************************)
\* The logs ops, busLog and replies are the observer's record of the run.
\* ops and busLog keep the operation in progress and the last one that
\* finished before it: when on_message returns for operation n, the entries of
\* the operations before n are dropped, and their place in ops is taken by
\* Forgotten.  replies keeps the replies to the latest operation: it is
\* emptied when on_message is called again.
Forgotten == [msg |-> NotJson, during |-> 0, mtaDone |-> FALSE, mtaStatus |-> <<>>]

Since(log, n) == SelectSeq(log, LAMBDA e : e.op >= n)

OpsSince(o, n) == [k \in DOMAIN o |-> IF k >= n THEN o[k] ELSE Forgotten]

\* on_message returns for operation n, or its except clause has run; o and r
\* are ops and replies as the handler leaves them
Return(n, o, r) ==
    /\ pc' = "idle"
    /\ cur' = 0
    /\ busRx' = <<>>
    /\ resp' = <<>>
    /\ ops' = OpsSince(o, n)
    /\ busLog' = Since(busLog, n)
    /\ replies' = r

\* an exception that ends the listener thread
RaiseEndsListener(n, o, r) ==
    /\ pc' = "dead"
    /\ cur' = 0
    /\ busRx' = <<>>
    /\ resp' = <<>>
    /\ ops' = OpsSince(o, n)
    /\ busLog' = Since(busLog, n)
    /\ replies' = r

\* an exception raised in the try block of on_message for operation n: the
\* except clause prints it and on_message returns
Raise(n, o, r) == Return(n, o, r)

\* replies after ws.send(json.dumps(body)) for operation n
Sent(n, body) == Append(replies, [op |-> n, body |-> body])

\* ops once on_message has been called with m, the head of the inbox
Called(m) ==
    Append(ops, [msg |-> m, during |-> Head(inbox).during,
                 mtaDone |-> FALSE, mtaStatus |-> <<>>])

\* a branch that acknowledges every command it does not know
IsInitOrUnknown(m) == m.wf /\ m.cmd \notin {"", "mem_read", "mem_write"}

\* the branch cmd == "init" is taken
IsInit(m) == m.wf /\ m.cmd = "init"

\* on_message up to its first spi.xfer2 call or to its end
Dispatch ==
    /\ wsState = "open"
    /\ ListenerFree
    /\ Len(inbox) > 0
    /\ inbox' = Tail(inbox)
    /\ \E m \in Messages :
        IF m.wf /\ m.cmd \in {"mem_read", "mem_write"} /\ ~ParseRaises(m)
        THEN /\ ops' = Called(m)
             /\ cur' = Len(ops) + 1
             /\ pc' = BusEntry
             /\ replies' = <<>>
             /\ UNCHANGED <<busLog, busRx, resp>>
        ELSE IF ~m.wf \/ (m.cmd \in {"mem_read", "mem_write"} /\ ParseRaises(m))
        THEN Raise(Len(ops) + 1, Called(m), <<>>)
        ELSE Return(Len(ops) + 1, Called(m),
                    IF IsInit(m)
                    THEN <<[op |-> Len(ops) + 1,
                            body |-> InitReply(IF m.con_id = "<missing>" THEN "00"
                                               ELSE m.con_id)]>>
                    ELSE <<>>)
    /\ UNCHANGED <<wsState, connected, spiOpen, main>>

\* one spi.xfer2(tx): the frame goes on the bus and one of rxs comes back
Transfer(tx, rxs) ==
    /\ spiOpen
    /\ busLog' = Append(busLog, [op |-> cur, tx |-> tx])
    /\ \E rx \in rxs : busRx' = rx

\* spi.xfer2 on a closed handle raises; the except clause of on_message logs it
XferRaises ==
    /\ pc \in XferPcs
    /\ ~spiOpen
    /\ Raise(cur, ops, replies)
    /\ UNCHANGED <<wsState, connected, spiOpen, main, inbox>>

\* send_set_mta: resp1 = self.spi.xfer2(set_mta_cmd)
SetMtaXfer1 ==
    /\ pc = "mta1"
    /\ Transfer(SetMtaCmd(Address(CurMsg)), Discarded)
    /\ pc' = "mta2"
    /\ UNCHANGED <<wsState, connected, spiOpen, main, inbox, ops, cur, resp, replies>>

\* send_set_mta: self.spi.xfer2(dummy)
SetMtaXfer2 ==
    /\ pc = "mta2"
    /\ Transfer(dummy, Discarded)
    /\ pc' = "mta3"
    /\ UNCHANGED <<wsState, connected, spiOpen, main, inbox, ops, cur, resp, replies>>

\* a send_set_mta that starts over once it has its response
SetMtaAgain == "mta1"

\* the place send_set_mta goes to with its response: the status check
SetMtaCheck == "mta_ret"

\* send_set_mta: resp = self.spi.xfer2(dummy)
SetMtaXfer3 ==
    /\ pc = "mta3"
    /\ Transfer(dummy, Responses)
    /\ resp' = busRx'
    /\ pc' = SetMtaCheck
    /\ UNCHANGED <<wsState, connected, spiOpen, main, inbox, ops, cur, replies>>

\* ops once send_set_mta has looked at resp
MtaChecked ==
    [ops EXCEPT ![cur].mtaDone = TRUE,
                ![cur].mtaStatus = IF Len(resp) = 0 THEN <<>> ELSE <<resp[1]>>]

\* send_set_mta checks resp[0] and returns; on_message goes on to send_command
\* or replies "SET_MTA failed"; resp[0] of an empty resp raises IndexError
SetMtaReturn ==
    /\ pc = "mta_ret"
    /\ IF Len(resp) = 0
       THEN Raise(cur, MtaChecked, replies)
       ELSE IF SetMtaOk(resp)
       THEN /\ pc' = "cmd1"
            /\ resp' = <<>>
            /\ busRx' = <<>>
            /\ ops' = MtaChecked
            /\ UNCHANGED <<cur, busLog, replies>>
       ELSE Return(cur, MtaChecked,
                   Sent(cur, IF CurMsg.cmd = "mem_read"
                             THEN ReadErrorReply(CurMsg.add, "SET_MTA failed")
                             ELSE WriteReply(CurMsg.add, "SET_MTA failed")))
    /\ UNCHANGED <<wsState, connected, spiOpen, main, inbox>>

\* send_command: self.spi.xfer2(command), after the padding
CmdXfer1 ==
    /\ pc = "cmd1"
    /\ Transfer(PadTo8(SpiCmd(CurMsg)), Discarded)
    /\ pc' = "cmd2"
    /\ UNCHANGED <<wsState, connected, spiOpen, main, inbox, ops, cur, resp, replies>>

\* send_command: self.spi.xfer2(dummy)
CmdXfer2 ==
    /\ pc = "cmd2"
    /\ Transfer(dummy, Discarded)
    /\ pc' = "cmd3"
    /\ UNCHANGED <<wsState, connected, spiOpen, main, inbox, ops, cur, resp, replies>>

\* send_command: response = self.spi.xfer2(dummy)
CmdXfer3 ==
    /\ pc = "cmd3"
    /\ Transfer(dummy, Responses)
    /\ resp' = busRx'
    /\ pc' = "cmd_ret"
    /\ UNCHANGED <<wsState, connected, spiOpen, main, inbox, ops, cur, replies>>

\* send_command returns spi_resp; on_message checks spi_resp[0], decodes and
\* replies; spi_resp[0] of an empty spi_resp raises IndexError
CmdReturn ==
    /\ pc = "cmd_ret"
    /\ IF Len(resp) = 0
       THEN Raise(cur, ops, replies)
       ELSE Return(cur, ops, Sent(cur, IF CurMsg.cmd = "mem_read"
                                       THEN ReadOutcome(CurMsg, resp)
                                       ELSE WriteOutcome(CurMsg, resp)))
    /\ UNCHANGED <<wsState, connected, spiOpen, main, inbox>>

Next ==
    \/ OnOpen
    \/ OnClose
    \/ Arrive
    \/ Interrupt
    \/ Dispatch
    \/ XferRaises
    \/ SetMtaXfer1
    \/ SetMtaXfer2
    \/ SetMtaXfer3
    \/ SetMtaReturn
    \/ CmdXfer1
    \/ CmdXfer2
    \/ CmdXfer3
    \/ CmdReturn

Spec == Init /\ [][Next]_vars

\* spi.xfer2 is a blocking call with no timeout: on a bus that does not
\* answer, the call does not return and the listener thread stays in it
XferHangs ==
    /\ pc \in XferPcs
    /\ spiOpen
    /\ pc' = "hung"
    /\ UNCHANGED <<wsState, connected, spiOpen, main, inbox, ops, cur, busLog, busRx,
                   resp, replies>>

HangNext ==
    \/ Next
    \/ XferHangs

\* the gateway on a bus that may stop answering
HangSpec == Init /\ [][HangNext]_vars

\* a step of the listener thread inside on_message
HandlerStep ==
    \/ XferRaises
    \/ SetMtaXfer1
    \/ SetMtaXfer2
    \/ SetMtaXfer3
    \/ SetMtaReturn
    \/ CmdXfer1
    \/ CmdXfer2
    \/ CmdXfer3
    \/ CmdReturn

(***************************************************************************)
(* Vocabulary of the properties.                                           *)
(***************************************************************************)
\* the frame is 8 bytes of 0xAA
IsFiller(tx) == tx = <<170, 170, 170, 170, 170, 170, 170, 170>>

\* the frame is a SHORT_UPLOAD or a DOWNLOAD command
IsTransferCmd(tx) == Len(tx) >= 1 /\ tx[1] \in {245, 240}

\* byte k (from 0) of the number a hexadecimal text denotes, from its digits
TextByte(text, k) ==
    LET d == StripPrefix(text, 16)
        nib(j) == IF j >= 1 THEN DigitVal(d[j]) ELSE 0
    IN  16 * nib(Len(d) - 2 * k - 1) + nib(Len(d) - 2 * k)

\* digit j (from 0, from the right) of a binary text
TextBit(text, j) ==
    LET d == StripPrefix(text, 2)
    IN  IF j < Len(d) /\ d[Len(d) - j] = "1" THEN 1 ELSE 0

\* the indices of the frames of operation k on the bus
FramesOf(k) == {i \in DOMAIN busLog : busLog[i].op = k}

\* the indices of the replies to operation k
RepliesTo(k) == {i \in DOMAIN replies : replies[i].op = k}

\* on_message has returned for operation k, the latest one
Finished(k) == cur = 0 /\ k = Len(ops) /\ k >= 1

\* the SET_MTA frame the layout of the interface gives for the address text
ExpectedSetMta(add) == <<246, 0, 0, 0, TextByte(add, 0), 0, 0, TextByte(add, 3)>>

(***************************************************************************)
(* C1: every SHORT_UPLOAD or DOWNLOAD command frame on the bus is the      *)
(* fourth frame after the SET_MTA command frame of the same operation,     *)
(* built for the address of that operation's request; the two frames in    *)
(* between are fillers of the same operation, and the SET_MTA exchange     *)
(* returned status 0xFF.                                                   *)
(***************************************************************************)
TransferFollowsOwnSetMta ==
    \A i \in DOMAIN busLog :
        IsTransferCmd(busLog[i].tx) =>
            /\ i >= 4
            /\ \A k \in 1..3 : busLog[i - k].op = busLog[i].op
            /\ busLog[i - 3].tx = ExpectedSetMta(ops[busLog[i].op].msg.add)
            /\ IsFiller(busLog[i - 2].tx)
            /\ IsFiller(busLog[i - 1].tx)
            /\ ops[busLog[i].op].mtaDone
            /\ ops[busLog[i].op].mtaStatus = <<255>>

\* two operations on the same address have each sent their transfer
TwoTransfersSameAddress ==
    \E i, j \in DOMAIN busLog :
        /\ i < j
        /\ IsTransferCmd(busLog[i].tx)
        /\ IsTransferCmd(busLog[j].tx)
        /\ busLog[i].op # busLog[j].op
        /\ ops[busLog[i].op].msg.add = ops[busLog[j].op].msg.add

(***************************************************************************)
(* C2: an operation whose SET_MTA exchange returned a status byte other    *)
(* than 0xFF has no SHORT_UPLOAD and no DOWNLOAD frame on the bus: its     *)
(* only frames are the three of the SET_MTA exchange.                      *)
(***************************************************************************)
NoTransferAfterFailedSetMta ==
    \A k \in DOMAIN ops :
        (ops[k].mtaDone /\ ops[k].mtaStatus # <<255>>) =>
            /\ \A i \in FramesOf(k) : ~IsTransferCmd(busLog[i].tx)
            /\ Cardinality(FramesOf(k)) = 3

\* a mem_write whose SET_MTA was refused with status 0xFE has returned and
\* has been answered "SET_MTA failed"
SetMtaRefused ==
    \E k \in DOMAIN ops :
        /\ Finished(k)
        /\ ops[k].msg.cmd = "mem_write"
        /\ ops[k].mtaDone
        /\ ops[k].mtaStatus = <<254>>
        /\ \E i \in RepliesTo(k) : replies[i].body.state = "SET_MTA failed"

(***************************************************************************)
(* C3: while the bus handle is open, once the handler of a mem_read or     *)
(* mem_write request has returned the request has exactly one reply.       *)
(***************************************************************************)
ExactlyOneReply ==
    (spiOpen /\ main = "running") =>
        \A k \in DOMAIN ops :
            (Finished(k) /\ ops[k].msg.wf
                /\ ops[k].msg.cmd \in {"mem_read", "mem_write"}) =>
                Cardinality(RepliesTo(k)) = 1

(***************************************************************************)
(* C4: the frames of two operations are never interleaved: the bus never   *)
(* returns to an earlier operation, and where the operation changes the    *)
(* earlier one has just completed an exchange (command, filler, filler);   *)
(* every frame belongs to a message that has been dispatched, and while a  *)
(* handler runs no later operation has a frame.                            *)
(***************************************************************************)
NoInterleaving ==
    /\ \A i \in DOMAIN busLog :
        /\ busLog[i].op \in DOMAIN ops
        /\ cur # 0 => busLog[i].op <= cur
    /\ \A i \in 1..(Len(busLog) - 1) :
        /\ busLog[i].op <= busLog[i + 1].op
        /\ busLog[i].op # busLog[i + 1].op =>
            /\ i >= 3
            /\ IsFiller(busLog[i].tx)
            /\ IsFiller(busLog[i - 1].tx)
            /\ ~IsFiller(busLog[i - 2].tx)
            /\ busLog[i - 1].op = busLog[i].op
            /\ busLog[i - 2].op = busLog[i].op

\* a request arrived while another was being handled, and both have had
\* their two exchanges
OverlappingBothComplete ==
    \E k \in DOMAIN ops :
        /\ ops[k].during # 0
        /\ Cardinality(FramesOf(k)) = 6
        /\ Cardinality(FramesOf(ops[k].during)) = 6

(***************************************************************************)
(* C5, as stated: every filler frame directly follows a command frame      *)
(* (one filler per exchange), and the response handed to the caller is     *)
(* what the latest transfer received.                                      *)
(***************************************************************************)
OneFillerPerExchange ==
    /\ \A i \in DOMAIN busLog :
        IsFiller(busLog[i].tx) => (i >= 2 /\ ~IsFiller(busLog[i - 1].tx))
    /\ pc \in {"mta_ret", "cmd_ret"} => resp = busRx

(***************************************************************************)
(* C5, amended: every exchange is the command frame followed by two        *)
(* filler frames of 8 bytes 0xAA; the response handed to the caller is     *)
(* what the second filler transfer received.                               *)
(***************************************************************************)
TwoFillersPerExchange ==
    /\ \A i \in DOMAIN busLog :
        IF IsFiller(busLog[i].tx)
        THEN /\ i >= 2
             /\ busLog[i - 1].op = busLog[i].op
             /\ \/ ~IsFiller(busLog[i - 1].tx)
                \/ i >= 3 /\ ~IsFiller(busLog[i - 2].tx)
                          /\ busLog[i - 2].op = busLog[i].op
        ELSE /\ busLog[i].tx[1] \in {246, 245, 240}
             /\ i + 1 <= Len(busLog) => IsFiller(busLog[i + 1].tx)
             /\ i + 2 <= Len(busLog) => IsFiller(busLog[i + 2].tx)
    /\ pc \in {"mta_ret", "cmd_ret"} =>
        /\ resp = busRx
        /\ Len(busLog) >= 3
        /\ IsFiller(busLog[Len(busLog)].tx)
        /\ IsFiller(busLog[Len(busLog) - 1].tx)
        /\ ~IsFiller(busLog[Len(busLog) - 2].tx)
        /\ busLog[Len(busLog) - 2].tx[1] = (IF pc = "mta_ret" THEN 246
                                            ELSE IF CurMsg.cmd = "mem_read" THEN 245
                                            ELSE 240)

\* send_command has just returned the response of the second filler transfer
\* of a SHORT_UPLOAD exchange
UploadExchangeReturned ==
    /\ pc = "cmd_ret"
    /\ CurMsg.cmd = "mem_read"
    /\ Len(busLog) = 6
    /\ resp = <<255, 120, 86, 52, 18>>

(***************************************************************************)
(* C6: every frame transmitted on the bus is exactly 8 bytes long.         *)
(***************************************************************************)
AllFramesEightBytes == \A i \in DOMAIN busLog : Len(busLog[i].tx) = 8

(***************************************************************************)
(* C7: when send_command returns to a mem_read of width 8, 16 or 32 a      *)
(* response that is empty or has status 0xFF, and that has fewer than      *)
(* 1 + numElements(width) bytes, the handler sends one reply, with a null  *)
(* value and the "Insufficient response length" error.                     *)
(***************************************************************************)
ShortResponseReported ==
    [][(/\ pc = "cmd_ret"
        /\ pc' = "idle"
        /\ CurMsg.cmd = "mem_read"
        /\ Size(CurMsg) \in {8, 16, 32}
        /\ Len(resp) < 1 + Size(CurMsg) \div 8
        /\ (Len(resp) = 0 \/ resp[1] = 255))
       => (/\ Len(replies') = Len(replies) + 1
           /\ replies'[Len(replies')].op = cur
           /\ replies'[Len(replies')].body.value = Null
           /\ replies'[Len(replies')].body.error
                \in {"Insufficient response length for 8-bit",
                     "Insufficient response length for 16-bit",
                     "Insufficient response length for 32-bit"})]_vars

(***************************************************************************)
(* C8: when send_command returns to a mem_read of width w in {8, 16, 32}   *)
(* a response with status 0xFF and at least 1 + w/8 bytes, the reply       *)
(* carries "0b" followed by exactly w digits, digit k from the left being  *)
(* bit w-k of the little-endian integer of response bytes 1..w/8; the      *)
(* response [FF,78,56,34,12] at width 32 gives                             *)
(* 0b00010010001101000101011001111000.                                     *)
(***************************************************************************)
ExpectedDigits(w, r) ==
    [k \in 1..w |->
        IF (r[2 + ((w - k) \div 8)] \div Pow2((w - k) % 8)) % 2 = 1 THEN "1" ELSE "0"]

Value12345678 == <<"0", "b", "0", "0", "0", "1", "0", "0", "1", "0", "0", "0", "1", "1", "0", "1", "0", "0", "0", "1", "0", "1", "0", "1", "1", "0", "0", "1", "1", "1", "1", "0", "0", "0">>

ReadValueLittleEndian ==
    [][(/\ pc = "cmd_ret"
        /\ pc' = "idle"
        /\ CurMsg.cmd = "mem_read"
        /\ Size(CurMsg) \in {8, 16, 32}
        /\ Len(resp) >= 1 + Size(CurMsg) \div 8
        /\ resp[1] = 255)
       => (/\ replies' = Append(replies,
                [op |-> cur,
                 body |-> [res |-> "mem_read", con_id |-> "<absent>",
                           add |-> CurMsg.add,
                           value |-> <<"0", "b">> \o ExpectedDigits(Size(CurMsg), resp),
                           error |-> "<absent>", state |-> "<absent>"]])
           /\ Len(replies'[Len(replies')].body.value) = 2 + Size(CurMsg)
           /\ (Size(CurMsg) = 32 /\ resp = <<255, 120, 86, 52, 18>>)
                => replies'[Len(replies')].body.value = Value12345678)]_vars

\* the reply of the scenario has been sent
ScenarioValueReplied ==
    \E i \in DOMAIN replies :
        /\ replies[i].body.res = "mem_read"
        /\ replies[i].body.value = Value12345678
        /\ replies[i].body.add = Add20000010
        /\ replies[i].body.error = "<absent>"

(***************************************************************************)
(* C9: the DOWNLOAD frame of a mem_write of width w, a multiple of 8 not   *)
(* above 48, and value v < 2^w is [0xF0, w/8, the w/8 bytes of v least     *)
(* significant first, zero bytes up to 8 bytes]; width 32 and value        *)
(* 0xDEADBEEF give [F0, 04, EF, BE, AD, DE, 00, 00].                       *)
(***************************************************************************)
\* the value of the binary text is below 2^w
ValueFits(data, w) == \A j \in w..Len(data) : TextBit(data, j) = 0

\* byte j (from 0) of the value of the binary text, from its digits
DataTextByte(data, j) ==
    TextBit(data, 8 * j) + 2 * TextBit(data, 8 * j + 1) + 4 * TextBit(data, 8 * j + 2)
    + 8 * TextBit(data, 8 * j + 3) + 16 * TextBit(data, 8 * j + 4)
    + 32 * TextBit(data, 8 * j + 5) + 64 * TextBit(data, 8 * j + 6)
    + 128 * TextBit(data, 8 * j + 7)

DownloadFrameLayout ==
    \A i \in DOMAIN busLog :
        LET m == ops[busLog[i].op].msg
            tx == busLog[i].tx
        IN  (tx[1] = 240 /\ Size(m) <= 48 /\ ValueFits(DataText(m), Size(m))) =>
                /\ Len(tx) = 8
                /\ tx[2] = Size(m) \div 8
                /\ \A j \in 3..8 :
                    tx[j] = IF j - 3 < Size(m) \div 8
                            THEN DataTextByte(DataText(m), j - 3) ELSE 0
                /\ (Size(m) = 32 /\ m.data = DataDEADBEEF)
                    => tx = <<240, 4, 239, 190, 173, 222, 0, 0>>

\* the DOWNLOAD frames of the 32-bit write of 0xDEADBEEF and of an 8-bit write
\* are on the bus
DownloadDeadBeefSent ==
    /\ \E i \in DOMAIN busLog : busLog[i].tx = <<240, 4, 239, 190, 173, 222, 0, 0>>
    /\ \E i \in DOMAIN busLog : busLog[i].tx = <<240, 1, 165, 0, 0, 0, 0, 0>>

(***************************************************************************)
(* C10: every SET_MTA frame is [0xF6, 0, 0, 0, a & 0xFF, 0, 0, a >> 24]    *)
(* and every SHORT_UPLOAD frame [0xF5, n, 0, 0, a & 0xFF, 0, 0, a >> 24]   *)
(* for the address a of the request, n being 1, 2, 4 for the widths 8, 16, *)
(* 32 and the width itself otherwise.                                      *)
(***************************************************************************)
ExpectedCount(w) == CASE w = 8 -> 1 [] w = 16 -> 2 [] w = 32 -> 4 [] OTHER -> w

AddressFrameLayout ==
    \A i \in DOMAIN busLog :
        LET m == ops[busLog[i].op].msg
            tx == busLog[i].tx
        IN  /\ tx[1] = 246 => tx = ExpectedSetMta(m.add)
            /\ tx[1] = 245 =>
                tx = <<245, ExpectedCount(Size(m)), 0, 0, TextByte(m.add, 0), 0, 0,
                       TextByte(m.add, 3)>>

\* the frames of a 16-bit read at 0x12345678 and of a read of width 12 are on
\* the bus
AddressFramesSent ==
    /\ \E i \in DOMAIN busLog : busLog[i].tx = <<246, 0, 0, 0, 120, 0, 0, 18>>
    /\ \E i \in DOMAIN busLog : busLog[i].tx = <<245, 2, 0, 0, 120, 0, 0, 18>>
    /\ \E i \in DOMAIN busLog : busLog[i].tx = <<245, 12, 0, 0, 16, 0, 0, 32>>

(***************************************************************************)
(* C11, as stated: decoding the header of every SET_MTA frame, and of      *)
(* every SHORT_UPLOAD frame of a read of width 8, 16 or 32, gives back the *)
(* four bytes of the address of the request and the element count of the   *)
(* width.                                                                  *)
(***************************************************************************)
\* byte k (from 0) of the address a receiver reads in the header: the low
\* byte is at position 4 of the frame, the high byte at position 7
HeaderAddressByte(tx, k) == CASE k = 0 -> tx[5] [] k = 3 -> tx[8] [] OTHER -> 0

\* the element count a receiver reads in the header
HeaderCount(tx) == tx[2]

\* the frames the round trip is about
IsAddressFrame(i) ==
    \/ busLog[i].tx[1] = 246
    \/ /\ busLog[i].tx[1] = 245
       /\ Size(ops[busLog[i].op].msg) \in {8, 16, 32}

AddressRoundTrip ==
    \A i \in DOMAIN busLog :
        IsAddressFrame(i) =>
            /\ \A k \in 0..3 :
                HeaderAddressByte(busLog[i].tx, k)
                    = TextByte(ops[busLog[i].op].msg.add, k)
            /\ busLog[i].tx[1] = 245 =>
                HeaderCount(busLog[i].tx) = ExpectedCount(Size(ops[busLog[i].op].msg))

(***************************************************************************)
(* C11, amended: decoding the header gives back bits 0..7 and 24..31 of    *)
(* the address and the element count of the width; bits 8..23 of the       *)
(* address are not in the frame, whose bytes 2, 3, 5 and 6 are zero, so    *)
(* the address comes back whole exactly when its bits 8..23 are zero.      *)
(***************************************************************************)
AddressRoundTripLowHigh ==
    \A i \in DOMAIN busLog :
        IsAddressFrame(i) =>
            /\ \A k \in {0, 3} :
                HeaderAddressByte(busLog[i].tx, k)
                    = TextByte(ops[busLog[i].op].msg.add, k)
            /\ \A k \in {3, 4, 6, 7} : busLog[i].tx[k] = 0
            /\ (\A k \in 0..3 : HeaderAddressByte(busLog[i].tx, k)
                                    = TextByte(ops[busLog[i].op].msg.add, k))
                <=> (\A k \in {1, 2} : TextByte(ops[busLog[i].op].msg.add, k) = 0)
            /\ busLog[i].tx[1] = 245 =>
                HeaderCount(busLog[i].tx) = ExpectedCount(Size(ops[busLog[i].op].msg))

\* the SHORT_UPLOAD frame of a 32-bit read at 0x20000010, whose address comes
\* back whole, and that of a 16-bit read at 0x12345678, whose does not
BothAddressKindsSent ==
    /\ \E i \in DOMAIN busLog : busLog[i].tx = <<245, 2, 0, 0, 120, 0, 0, 18>>
    /\ \E i \in DOMAIN busLog : busLog[i].tx = <<245, 4, 0, 0, 16, 0, 0, 32>>

(***************************************************************************)
(* C12: a reply that reports success (a value for mem_read, state          *)
(* "success" for mem_write) is sent only when the SET_MTA exchange and the *)
(* transfer exchange of the operation both returned status 0xFF; a         *)
(* SET_MTA response with another status is answered "SET_MTA failed", a    *)
(* transfer response with another status "SHORT_UPLOAD failed" or state    *)
(* "fail", each time with one reply.                                       *)
(***************************************************************************)
\* the reply reports success
ReportsSuccess(body) ==
    \/ body.res = "mem_read" /\ body.value \notin {Null, NoText}
    \/ body.res = "mem_write" /\ body.state = "success"

\* the reply of a failed exchange: the text is the error of a mem_read, the
\* state of a mem_write
FailureReply(m, readError, writeState) ==
    IF m.cmd = "mem_read"
    THEN [res |-> "mem_read", con_id |-> "<absent>", add |-> m.add, value |-> Null,
          error |-> readError, state |-> "<absent>"]
    ELSE [res |-> "mem_write", con_id |-> "<absent>", add |-> m.add,
          value |-> NoText, error |-> "<absent>", state |-> writeState]

StatusDecidesOutcome ==
    [][/\ (/\ replies' # replies
           /\ Len(replies') > 0
           /\ ReportsSuccess(replies'[Len(replies')].body))
          => (/\ pc = "cmd_ret"
              /\ Len(resp) > 0
              /\ resp[1] = 255
              /\ ops[cur].mtaStatus = <<255>>
              /\ replies'[Len(replies')].op = cur)
       /\ (pc = "mta_ret" /\ pc' = "idle" /\ Len(resp) > 0 /\ resp[1] # 255)
          => replies' = <<[op |-> cur,
                           body |-> FailureReply(CurMsg, "SET_MTA failed",
                                                 "SET_MTA failed")]>>
       /\ (pc = "cmd_ret" /\ pc' = "idle" /\ Len(resp) > 0 /\ resp[1] # 255)
          => replies' = <<[op |-> cur,
                           body |-> FailureReply(CurMsg, "SHORT_UPLOAD failed",
                                                 "fail")]>>]_vars

\* a mem_write whose SET_MTA succeeded has been answered state "fail"
TransferFailureReported ==
    \E k \in DOMAIN ops :
        /\ Finished(k)
        /\ ops[k].msg.cmd = "mem_write"
        /\ ops[k].mtaStatus = <<255>>
        /\ \E i \in RepliesTo(k) : replies[i].body.state = "fail"

(***************************************************************************)
(* C13: when on_message is called with a message that is not JSON, has no  *)
(* cmd, or has a cmd other than init, mem_read and mem_write, the call     *)
(* returns with no reply sent and no frame put on the bus for it, and the  *)
(* connected flag, the bus handle and the websocket are as before.         *)
(***************************************************************************)
IgnoredMessage(m) == ~m.wf \/ m.cmd \notin {"init", "mem_read", "mem_write"}

IgnoredMessageHasNoEffect ==
    [][(Len(ops') = Len(ops) + 1 /\ IgnoredMessage(ops'[Len(ops')].msg))
       => (/\ pc' = "idle"
           /\ cur' = 0
           /\ \A i \in DOMAIN replies' : replies'[i].op # Len(ops')
           /\ \A i \in DOMAIN busLog' : busLog'[i].op # Len(ops')
           /\ Len(busLog') <= Len(busLog)
           /\ connected' = connected
           /\ spiOpen' = spiOpen
           /\ wsState' = wsState
           /\ main' = main)]_vars

\* a message with an unknown cmd has been handled, as the second message of
\* the run, on an open gateway
UnknownCommandIgnored ==
    /\ Len(ops) = 2
    /\ Finished(2)
    /\ ops[2].msg.wf
    /\ ops[2].msg.cmd = "reset"
    /\ replies = <<>>
    /\ busLog = <<>>
    /\ connected
    /\ spiOpen

(***************************************************************************)
(* C14: when on_message is called with an init message, the call returns   *)
(* having sent exactly one reply, {res: init, con_id}, whose con_id is the *)
(* one of the request, or "00" when the request has none; no frame is put  *)
(* on the bus for it, and the connected flag, the bus handle and the       *)
(* websocket are as before.                                                *)
(***************************************************************************)
InitAcknowledged ==
    [][(/\ Len(ops') = Len(ops) + 1
        /\ ops'[Len(ops')].msg.wf
        /\ ops'[Len(ops')].msg.cmd = "init")
       => (/\ pc' = "idle"
           /\ cur' = 0
           /\ replies' =
                <<[op |-> Len(ops'),
                   body |-> [res |-> "init",
                             con_id |-> IF ops'[Len(ops')].msg.con_id = "<missing>"
                                        THEN "00"
                                        ELSE ops'[Len(ops')].msg.con_id,
                             add |-> NoText, value |-> NoText,
                             error |-> "<absent>", state |-> "<absent>"]]>>
           /\ \A i \in DOMAIN busLog' : busLog'[i].op # Len(ops')
           /\ Len(busLog') <= Len(busLog)
           /\ connected' = connected
           /\ spiOpen' = spiOpen
           /\ wsState' = wsState
           /\ main' = main)]_vars

\* an init with con_id "7" has been acknowledged with con_id "7"
InitEchoed ==
    \E k \in DOMAIN ops :
        /\ Finished(k)
        /\ ops[k].msg.cmd = "init"
        /\ ops[k].msg.con_id = "7"
        /\ Len(replies) = 1
        /\ replies[1].op = k
        /\ replies[1].body.res = "init"
        /\ replies[1].body.con_id = "7"
        /\ busLog = <<>>

(***************************************************************************)
(* C15: a handler that fails (a message that is not JSON, fields that do   *)
(* not parse, a transfer on a closed bus handle, an index fault on an      *)
(* empty response) returns the listener thread to the place where it takes *)
(* the next message, with no message lost from the socket and nothing kept *)
(* of the failed call; and no step of any handler changes the connected    *)
(* flag, the bus handle, the websocket or the main thread.  What the       *)
(* gateway does for a later message then depends on nothing the failing    *)
(* message did.                                                            *)
(***************************************************************************)
\* the places of the listener thread inside a handler
HandlerPcs == XferPcs \cup {"mta_ret", "cmd_ret"}

\* this step ends the handler of operation n without it having done its work
HandlerFails(n) ==
    /\ pc \in HandlerPcs \/ Len(ops') = Len(ops) + 1
    /\ pc' \notin HandlerPcs
    /\ \/ ~ops'[n].msg.wf
       \/ /\ ops'[n].msg.cmd \in {"mem_read", "mem_write"}
          /\ \A i \in DOMAIN replies' : replies'[i].op # n

FailedHandlerLeavesNoTrace ==
    [][/\ (ops' # ops \/ pc' # pc \/ busLog' # busLog \/ replies' # replies)
          => (/\ wsState' = wsState
              /\ connected' = connected
              /\ spiOpen' = spiOpen
              /\ main' = main)
       /\ HandlerFails(IF cur # 0 THEN cur ELSE Len(ops'))
          => (/\ pc' = "idle"
              /\ cur' = 0
              /\ resp' = <<>>
              /\ busRx' = <<>>
              /\ inbox' = (IF cur # 0 THEN inbox ELSE Tail(inbox)))]_vars

\* after a mem_read whose address did not parse, the next message has had
\* its two exchanges
LaterMessageServed ==
    /\ cur = 2
    /\ pc = "cmd_ret"
    /\ ops[1].msg.add = AddBad
    /\ FramesOf(1) = {}
    /\ Cardinality(FramesOf(2)) = 6

(***************************************************************************)
(* C16: a mem_write whose width in bits is not a multiple of 8 has no      *)
(* frame on the bus, neither SET_MTA nor DOWNLOAD, and its handler is      *)
(* never in the middle of an exchange.                                     *)
(***************************************************************************)
\* the message is a mem_write whose size is a number that 8 does not divide
OddWidthWrite(m) ==
    /\ m.wf
    /\ m.cmd = "mem_write"
    /\ \A i \in 1..Len(SizeText(m)) : DigitVal(SizeText(m)[i]) <= 9
    /\ Size(m) % 8 # 0

OddWidthWriteSendsNothing ==
    \A k \in DOMAIN ops :
        OddWidthWrite(ops[k].msg) =>
            /\ FramesOf(k) = {}
            /\ cur # k
            /\ ~ops[k].mtaDone

\* a mem_write of width 12 has been handled, and the next message is in its
\* SET_MTA exchange
OddWidthWriteRejected ==
    /\ cur = 2
    /\ pc = "mta3"
    /\ ops[1].msg.cmd = "mem_write"
    /\ ops[1].msg.size = <<"1", "2">>
    /\ Len(busLog) = 2

(***************************************************************************)
(* C17: a mem_write of a width above 48 bits has no DOWNLOAD frame on the  *)
(* bus, a mem_read whose element count is above 255 no SHORT_UPLOAD frame, *)
(* a request whose address has more than 32 bits no frame at all; and none *)
(* of them is answered with a success.                                     *)
(***************************************************************************)
\* the fields of the message parse as numbers
FieldsParse(m) ==
    /\ m.wf
    /\ m.cmd \in {"mem_read", "mem_write"}
    /\ ~IntRaises(m.add, 16)
    /\ ~IntRaises(SizeText(m), SizeBase(SizeText(m)))
    /\ m.cmd = "mem_write" => ~IntRaises(DataText(m), 2)

\* the opcodes of the frames that would carry the out-of-range field of m
OutOfRangeOpcodes(m) ==
    (IF m.cmd = "mem_write" /\ Size(m) > 48 THEN {240} ELSE {})
    \cup (IF m.cmd = "mem_read" /\ ExpectedCount(Size(m)) > 255 THEN {245} ELSE {})
    \cup (IF \E j \in 32..(4 * Len(m.add)) : Bit(IntBits(m.add, 16), j) = 1
          THEN {246, 245, 240} ELSE {})

OutOfRangeRejected ==
    \A k \in DOMAIN ops :
        (FieldsParse(ops[k].msg) /\ OutOfRangeOpcodes(ops[k].msg) # {}) =>
            /\ \A i \in FramesOf(k) :
                busLog[i].tx[1] \notin OutOfRangeOpcodes(ops[k].msg)
            /\ \A i \in RepliesTo(k) : ~ReportsSuccess(replies[i].body)

(***************************************************************************)
(* C18: while the channel is open the connected flag is true; once the     *)
(* channel has been closed the flag is false and the bus handle is closed; *)
(* before the channel opens the flag is false.                             *)
(***************************************************************************)
ConnectedFollowsChannel ==
    /\ wsState = "open" => connected
    /\ wsState = "closed" => (~connected /\ ~spiOpen)
    /\ wsState = "connecting" => ~connected

\* the channel has been closed after a message was handled, with the main
\* thread still running: on_close has released the bus handle
ChannelClosedAfterUse ==
    /\ wsState = "closed"
    /\ main = "running"
    /\ Len(ops) > 0
    /\ ~connected
    /\ ~spiOpen

(***************************************************************************)
(* C19: a frame goes on the bus only while the bus handle is open; a       *)
(* transfer attempted on a closed handle ends the handler, with no frame   *)
(* and no further attempt; and the bus handle is never closed while the    *)
(* listener thread is between the transfers of an exchange.                *)
(***************************************************************************)
\* the places of the listener thread between the transfers of an exchange
MidExchangePcs == {"mta2", "mta3", "cmd2", "cmd3"}

BusHandleGuarded ==
    [][/\ Len(busLog') > Len(busLog) => (spiOpen /\ spiOpen')
       /\ (pc \in XferPcs /\ ~spiOpen /\ pc' # pc)
          => (pc' = "idle" /\ Len(busLog') <= Len(busLog))
       /\ (spiOpen /\ ~spiOpen') => pc \notin MidExchangePcs]_vars

(***************************************************************************)
(* C20: an operation has at most one SET_MTA command frame and at most one *)
(* SHORT_UPLOAD or DOWNLOAD command frame on the bus, and at most six      *)
(* frames in all, whatever the responses were; once its handler has        *)
(* returned no frame is added to it.                                       *)
(***************************************************************************)
\* the indices of the frames of operation k that begin with one of the opcodes
CommandFramesOf(k, opcodes) == {i \in FramesOf(k) : busLog[i].tx[1] \in opcodes}

NoRetry ==
    \A k \in DOMAIN ops :
        /\ Cardinality(CommandFramesOf(k, {246})) <= 1
        /\ Cardinality(CommandFramesOf(k, {245, 240})) <= 1
        /\ Cardinality(FramesOf(k)) <= 6
        /\ (ops[k].mtaDone /\ ops[k].mtaStatus # <<255>> /\ k # cur)
            => Cardinality(FramesOf(k)) = 3

\* a mem_read whose SET_MTA got the status 0x12 has returned with its three
\* frames and the reply "SET_MTA failed"
FailedOnceAndReported ==
    \E k \in DOMAIN ops :
        /\ Finished(k)
        /\ ops[k].msg.cmd = "mem_read"
        /\ ops[k].mtaStatus = <<18>>
        /\ Cardinality(FramesOf(k)) = 3
        /\ Len(replies) = 1
        /\ replies[1].body.error = "SET_MTA failed"

(***************************************************************************)
(* C21: the session is Idle between handlers, SettingMta during the        *)
(* SET_MTA exchange and Transferring during the transfer exchange.  It     *)
(* leaves Idle only for SettingMta, at the start of a new operation;       *)
(* enters Transferring only from SettingMta, on a SET_MTA response with    *)
(* status 0xFF; leaves Transferring only for Idle.  Every step of the      *)
(* handler brings it nearer to Idle, which is at most eight steps away,    *)
(* and while it is not Idle a step of the handler is possible, whatever    *)
(* the responses were (where the reply carries a decoded value, the step   *)
(* is the one of C8).                                                      *)
(***************************************************************************)
SessionState(p) ==
    CASE p = "idle" -> "Idle"
      [] p \in {"mta1", "mta2", "mta3", "mta_ret"} -> "SettingMta"
      [] p \in {"cmd1", "cmd2", "cmd3", "cmd_ret"} -> "Transferring"
      [] OTHER -> "Unknown"

\* the most steps the handler still takes from place p
StepsToIdle(p) ==
    CASE p = "mta1" -> 8 [] p = "mta2" -> 7 [] p = "mta3" -> 6 [] p = "mta_ret" -> 5
      [] p = "cmd1" -> 4 [] p = "cmd2" -> 3 [] p = "cmd3" -> 2 [] p = "cmd_ret" -> 1
      [] p = "idle" -> 0
      [] OTHER -> 9

SessionStepAllowed ==
    \/ pc' = pc
    \/ /\ SessionState(pc) = "Idle"
       /\ pc' = "mta1"
       /\ Len(ops') = Len(ops) + 1
       /\ cur' = Len(ops')
    \/ /\ SessionState(pc) = "SettingMta"
       /\ SessionState(pc') = "SettingMta"
       /\ StepsToIdle(pc') < StepsToIdle(pc)
       /\ cur' = cur
    \/ /\ SessionState(pc) = "SettingMta"
       /\ SessionState(pc') = "Transferring"
       /\ pc = "mta_ret"
       /\ pc' = "cmd1"
       /\ Len(resp) > 0
       /\ resp[1] = 255
       /\ cur' = cur
    \/ /\ SessionState(pc) = "Transferring"
       /\ SessionState(pc') = "Transferring"
       /\ StepsToIdle(pc') < StepsToIdle(pc)
       /\ cur' = cur
    \/ /\ SessionState(pc) \in {"SettingMta", "Transferring"}
       /\ pc' = "idle"
       /\ cur' = 0

\* the handler has a step to take
HandlerGoesOn == ENABLED HandlerStep

\* send_command has returned a response that on_message decodes into a value
DecodesValue ==
    /\ pc = "cmd_ret"
    /\ CurMsg.cmd = "mem_read"
    /\ Len(resp) > 0
    /\ resp[1] = 255
    /\ ~TooShort(Size(CurMsg), resp)

SessionReturnsToIdle ==
    [][/\ SessionStepAllowed
       /\ SessionState(pc') \in {"Idle", "SettingMta", "Transferring"}
       /\ (pc' # "idle" /\ ~DecodesValue') => HandlerGoesOn']_vars

\* after an operation that ended on an index fault in send_set_mta, the next
\* operation has reached the transfer exchange
SecondSessionTransferring ==
    /\ cur = 2
    /\ pc = "cmd2"
    /\ ops[1].mtaDone
    /\ ops[1].mtaStatus = <<>>
    /\ ops[2].mtaStatus = <<255>>

(***************************************************************************)
(* C22: when a transfer does not complete, the listener thread is not held *)
(* for ever: it has a step to take, which abandons the exchange or takes   *)
(* the next message.                                                       *)
(***************************************************************************)
UnresponsiveBusAbandoned == pc = "hung" => ENABLED (HandlerStep \/ Dispatch)

(***************************************************************************)
(* C23: when send_set_mta has received a response of no bytes, or          *)
(* send_command has returned a response of no bytes to a mem_write, the    *)
(* handler ends by sending one reply for the request, which reports an     *)
(* error.                                                                  *)
(***************************************************************************)
EmptyResponseReported ==
    [][(/\ \/ pc = "mta_ret"
           \/ pc = "cmd_ret" /\ CurMsg.cmd = "mem_write"
        /\ Len(resp) = 0
        /\ pc' # pc)
       => (/\ pc' = "idle"
           /\ Len(replies') = Len(replies) + 1
           /\ replies'[Len(replies')].op = cur
           /\ ~ReportsSuccess(replies'[Len(replies')].body)
           /\ \/ replies'[Len(replies')].body.error # "<absent>"
              \/ replies'[Len(replies')].body.state \notin {"<absent>", "success"})]_vars

(***************************************************************************)
(* C24: when send_command returns a response with status 0xFF to a         *)
(* mem_read whose size is positive and not 8, 16 or 32, the SHORT_UPLOAD   *)
(* frame of the operation carries the size as its element count and the    *)
(* one reply carries "0b" followed by size digits 0, whatever the bytes    *)
(* after the status are and however many there are.                        *)
(***************************************************************************)
OtherWidthReadsZero ==
    [][(/\ pc = "cmd_ret"
        /\ pc' # pc
        /\ CurMsg.cmd = "mem_read"
        /\ Size(CurMsg) \notin {8, 16, 32}
        /\ Size(CurMsg) > 0
        /\ Len(resp) > 0
        /\ resp[1] = 255)
       => (/\ replies' =
                <<[op |-> cur,
                   body |-> [res |-> "mem_read", con_id |-> "<absent>",
                             add |-> CurMsg.add,
                             value |-> <<"0", "b">> \o [k \in 1..Size(CurMsg) |-> "0"],
                             error |-> "<absent>", state |-> "<absent>"]]>>
           /\ \E i \in FramesOf(cur) :
                /\ busLog[i].tx[1] = 245
                /\ busLog[i].tx[2] = Size(CurMsg)
           /\ ops[cur].mtaStatus = <<255>>)]_vars

\* a mem_read of size 12 has been answered with twelve digits 0
TwelveZerosReplied ==
    \E k \in DOMAIN ops :
        /\ Finished(k)
        /\ ops[k].msg.cmd = "mem_read"
        /\ ops[k].msg.size = <<"1", "2">>
        /\ Len(replies) = 1
        /\ replies[1].body.value = <<"0", "b">> \o [j \in 1..12 |-> "0"]

(***************************************************************************)
(* C25: when send_command returns to a mem_write of width w, at most 48,   *)
(* whose value is not below 2^w, the DOWNLOAD frame of the operation is    *)
(* [0xF0, w/8, the low w/8 bytes of the value least significant first,     *)
(* zeros], and the one reply has state "success" when the status is 0xFF   *)
(* and "fail" otherwise: the bits of the value from w up are dropped and   *)
(* no error is reported for them.                                          *)
(***************************************************************************)
OverflowingWriteTruncated ==
    [][(/\ pc = "cmd_ret"
        /\ pc' # pc
        /\ CurMsg.cmd = "mem_write"
        /\ Size(CurMsg) <= 48
        /\ ~ValueFits(DataText(CurMsg), Size(CurMsg))
        /\ Len(resp) > 0)
       => (/\ replies' =
                <<[op |-> cur,
                   body |-> [res |-> "mem_write", con_id |-> "<absent>",
                             add |-> CurMsg.add, value |-> NoText,
                             error |-> "<absent>",
                             state |-> IF resp[1] = 255 THEN "success" ELSE "fail"]]>>
           /\ \E i \in FramesOf(cur) :
                /\ busLog[i].tx[1] = 240
                /\ Len(busLog[i].tx) = 8
                /\ busLog[i].tx[2] = Size(CurMsg) \div 8
                /\ \A j \in 3..8 :
                    busLog[i].tx[j] = IF j - 3 < Size(CurMsg) \div 8
                                      THEN DataTextByte(DataText(CurMsg), j - 3)
                                      ELSE 0)]_vars

\* the 8-bit write of the value 0x1A5 has sent the byte 0xA5 and has been
\* answered "success"
TruncatedWriteSucceeded ==
    \E k \in DOMAIN ops :
        /\ Finished(k)
        /\ ops[k].msg.data = Data1A5
        /\ ops[k].msg.size = <<"8">>
        /\ \E i \in FramesOf(k) : busLog[i].tx = <<240, 1, 165, 0, 0, 0, 0, 0>>
        /\ Len(replies) = 1
        /\ replies[1].body.state = "success"

====
